---- MODULE Spec2Model ----
(***************************************************************************)
(* Model of the perplexity-search MCP server in its two transport          *)
(* variants: the stdio variant (class PerplexityServer, src/unnamed/       *)
(* part_000) and the event-stream + POST variant (src/src/index.ts).       *)
(*                                                                         *)
(* JavaScript values are modelled as follows.                              *)
(*   - an optional value (a possibly-undefined variable, a possibly-absent *)
(*     object member) is a sequence of length at most one: <<>> is         *)
(*     undefined/absent, <<v>> is the value v;                             *)
(*   - an object is a record; an object built with an optional member is a *)
(*     record whose DOMAIN has the key only when it was assigned;          *)
(*   - a string produced by JSON.stringify is the sequence of its lexemes  *)
(*     (punctuation, keys and values), whitespace dropped; a string        *)
(*     produced by a template literal is the one-lexeme sequence holding   *)
(*     the concatenation.                                                  *)
(***************************************************************************)
EXTENDS Integers, Sequences, FiniteSets, TLC

\* Bounds of the model (not program constants).
MaxInFlight == 2   \* invocations suspended at their outbound call at one time
MaxClients == 2    \* GET /sse connections made over the life of the process

----------------------------------------------------------------------------
(* Optional values and JavaScript truthiness *)

None == <<>>
Some(v) == <<v>>
IsDefined(o) == Len(o) > 0
Val(o) == o[1]

\* Truthiness of an optional string: undefined and "" are falsy.
Truthy(o) == IsDefined(o) /\ Val(o) # ""

\* a || b on optional strings.
Or(a, b) == IF Truthy(a) THEN a ELSE b

\* Array.prototype.indexOf: 0-based index of the first occurrence, -1 if none.
IndexOf(arr, x) ==
  IF \E i \in 1..Len(arr) : arr[i] = x
  THEN (CHOOSE i \in 1..Len(arr) : arr[i] = x /\ \A j \in 1..(i - 1) : arr[j] # x) - 1
  ELSE -1

\* arr[k] with a 0-based index: undefined when out of range.
At(arr, k) == IF k >= 0 /\ k < Len(arr) THEN Some(arr[k + 1]) ELSE None

----------------------------------------------------------------------------
(* Configuration *)

maxTokens == 8192
temperature == [num |-> 2, den |-> 10]   \* 0.2
RecognizedModels == {"sonar", "sonar-pro"}
Endpoint == "https://api.perplexity.ai/chat/completions"

\* The command-line arguments after the script name that the model draws from.
Argvs ==
  { <<>>, <<"--model", "sonar">>, <<"--model", "sonar-pro">>,
    <<"--model", "foo">>, <<"--model">>, <<"--verbose", "--model", "sonar">>,
    <<"--model", "--verbose">> }

\* PERPLEXITY_API_KEY in the environment: unset, or the account's key.
ValidKey == "pplx-key"
ApiKeys == { None, Some(ValidKey) }

\* const model = modelIndex !== -1 ? process.argv[modelIndex + 1] : 'sonar-pro'
ParseModel(args) ==
  LET modelIndex == IndexOf(args, "--model")
  IN IF modelIndex # -1 THEN At(args, modelIndex + 1) ELSE Some("sonar-pro")

\* Mutant of ModelValid: the model is not validated.
ModelValidAny(m) == TRUE

\* ['sonar', 'sonar-pro'].includes(model)
ModelValid(m) == IsDefined(m) /\ Val(m) \in RecognizedModels

----------------------------------------------------------------------------
(* Tool-invocation requests (CallToolRequest.params) *)

Queries == { "capital of France", "" }
RecencyTokens == { "month", "week", "day", "hour" }
RecencyStrings == RecencyTokens \cup { "year", "" }

\* request.params.arguments as { query: string; search_recency_filter?: string }
Arguments ==
  [ query : Queries,
    search_recency_filter : { None } \cup { Some(r) : r \in RecencyStrings } ]

Requests ==
  { [name |-> "search", arguments |-> a] : a \in Arguments }
    \cup { [name |-> "lookup", arguments |-> [query |-> "capital of France",
                                              search_recency_filter |-> None]] }

\* Mutant of Dispatch: the switch has no default case and every name runs the
\* search case.
DispatchFallthrough(name) == "search"

\* switch (request.params.name): the case taken.
Dispatch(name) == IF name = "search" THEN "search" ELSE "default"

\* The payload object: the four fixed members, and search_recency_filter only
\* when the argument is truthy.
BasePayload(mdl, args) ==
  [ model |-> mdl,
    messages |-> << [role |-> "user", content |-> args.query] >>,
    max_tokens |-> maxTokens,
    temperature |-> temperature ]

\* Mutant of BuildPayload: the member is always assigned
\* (payload.search_recency_filter = search_recency_filter || "").
BuildPayloadAlways(mdl, args) ==
  BasePayload(mdl, args)
    @@ ("search_recency_filter" :>
          IF Truthy(args.search_recency_filter) THEN Val(args.search_recency_filter) ELSE "")

BuildPayload(mdl, args) ==
  IF Truthy(args.search_recency_filter)
  THEN BasePayload(mdl, args)
         @@ ("search_recency_filter" :> Val(args.search_recency_filter))
  ELSE BasePayload(mdl, args)

\* `Bearer ${process.env.PERPLEXITY_API_KEY!}`
BuildHeaders(key) ==
  [ Authorization |-> "Bearer " \o (IF IsDefined(key) THEN Val(key) ELSE "undefined"),
    ContentType |-> "application/json" ]

\* Mutant of IssueCalls: without an API key the handler makes no call.
IssueCallsIfKey(mdl, key, args) ==
  IF IsDefined(key)
  THEN << [url |-> Endpoint, payload |-> BuildPayload(mdl, args), headers |-> BuildHeaders(key)] >>
  ELSE <<>>

\* The outbound calls the handler issues before it suspends: one axios.post.
IssueCalls(mdl, key, args) ==
  << [url |-> Endpoint, payload |-> BuildPayload(mdl, args), headers |-> BuildHeaders(key)] >>

----------------------------------------------------------------------------
(* Outcomes of the outbound call, as axios reports them *)

Choice(c) == [message |-> [content |-> c]]
ChoiceLists == { <<>>, <<Choice("Paris")>>, <<Choice("Lyon"), Choice("Paris")>> }
CitationLists == { <<>>, <<"https://a">>, <<"https://a", "https://b">> }
ErrorFields == { None, Some(""), Some("invalid_api_key") }
MessageFields == { None, Some(""), Some("bad request") }

\* A 2xx reply: axios resolves. data.choices is absent when the body is not of
\* the expected shape (a body that is not JSON, or JSON without choices).
OkOutcomes ==
  { [kind |-> "ok", data |-> [choices |-> ch, citations |-> ci]] :
      ch \in { None } \cup { Some(l) : l \in ChoiceLists },
      ci \in { None } \cup { Some(l) : l \in CitationLists } }

\* A non-2xx reply: axios rejects with an AxiosError carrying the response.
\* response.data is an object with optional error/message members, or (None)
\* a body with neither (empty, or not JSON).
HttpOutcomes ==
  { [kind |-> "http", message |-> "Request failed with status code 401", data |-> d] :
      d \in { None } \cup { Some([error |-> e, message |-> m]) :
                              e \in ErrorFields, m \in MessageFields } }

\* No reply at all: axios rejects with an AxiosError without a response.
NetworkOutcomes == { [kind |-> "network", message |-> "Network Error"] }

FailureOutcomes == HttpOutcomes \cup NetworkOutcomes
Outcomes == OkOutcomes \cup FailureOutcomes

\* The Search Gateway answers 2xx only to a call bearing the account's key.
GatewayOutcomes(call) ==
  IF call.headers.Authorization = "Bearer " \o ValidKey
  THEN Outcomes
  ELSE FailureOutcomes

----------------------------------------------------------------------------
(* JSON.stringify / JSON.parse on the {content, citations} object *)

RECURSIVE Join(_)
\* The lexemes of the items of a list, separated by ",".
Join(items) ==
  IF Len(items) = 0 THEN <<>>
  ELSE IF Len(items) = 1 THEN items[1]
  ELSE items[1] \o <<",">> \o Join(Tail(items))

ArrayLexemes(list) ==
  <<"[">> \o Join([i \in 1..Len(list) |-> <<list[i]>>]) \o <<"]">>

\* JSON.stringify(obj, null, 2): a member whose value is undefined is left out.
JsonStringify(obj) ==
  LET c == IF IsDefined(obj.content)
           THEN << <<"content", ":", Val(obj.content)>> >> ELSE <<>>
      t == IF IsDefined(obj.citations)
           THEN << <<"citations", ":">> \o ArrayLexemes(Val(obj.citations)) >> ELSE <<>>
  IN <<"{">> \o Join(c \o t) \o <<"}">>

Min(S) == CHOOSE x \in S : \A y \in S : x <= y

\* JSON.parse, as the caller applies it to the text block; a member that is
\* not there reads as undefined.
JsonParse(text) ==
  LET KeyAt(k) == { i \in 1..(Len(text) - 1) : text[i] = k /\ text[i + 1] = ":" }
      ci == Min(KeyAt("content"))
      ti == Min(KeyAt("citations"))
      close == Min({ j \in (ti + 2)..Len(text) : text[j] = "]" })
  IN [ content |-> IF KeyAt("content") = {} THEN None ELSE Some(text[ci + 2]),
       citations |-> IF KeyAt("citations") = {} THEN None
                     ELSE Some(SelectSeq(SubSeq(text, ti + 3, close - 1),
                                         LAMBDA x : x # ",")) ]

----------------------------------------------------------------------------
(* The CallToolRequestSchema handler *)

Return(v) == [kind |-> "return", value |-> v]
Throw(e) == [kind |-> "throw", value |-> e]

\* default: throw new McpError(ErrorCode.MethodNotFound, `Unknown tool: ${name}`)
UnknownTool(name) ==
  Throw([name |-> "McpError", code |-> "MethodNotFound",
         message |-> "Unknown tool: " \o name])

\* response.data.choices[0].message.content faults (a TypeError) when choices
\* is absent or empty.
Faults(data) == ~IsDefined(data.choices) \/ Len(Val(data.choices)) = 0

\* Mutant of FormatResponse: citations is taken as it is, without `|| []`.
FormatResponseNoDefault(data) ==
  [ content |-> Some(Val(data.choices)[1].message.content),
    citations |-> data.citations ]

\* formattedResponse
FormatResponse(data) ==
  [ content |-> Some(Val(data.choices)[1].message.content),
    citations |-> Some(IF IsDefined(data.citations) THEN Val(data.citations) ELSE <<>>) ]

\* Mutant of ErrorMessage: the members are chosen by presence (??), not by
\* truthiness (||).
ErrorMessageByPresence(o) ==
  LET errorData == IF o.kind = "http" THEN o.data ELSE None
      err == IF IsDefined(errorData) THEN Val(errorData).error ELSE None
      msg == IF IsDefined(errorData) THEN Val(errorData).message ELSE None
  IN IF IsDefined(err) THEN Val(err) ELSE IF IsDefined(msg) THEN Val(msg) ELSE o.message

\* errorData?.error || errorData?.message || axiosError.message
ErrorMessage(o) ==
  LET errorData == IF o.kind = "http" THEN o.data ELSE None
      err == IF IsDefined(errorData) THEN Val(errorData).error ELSE None
      msg == IF IsDefined(errorData) THEN Val(errorData).message ELSE None
  IN Val(Or(Or(err, msg), Some(o.message)))

\* A catch block that turns whatever was thrown into an error response,
\* without asking whether it is an axios error.
HandleReplyCatchAll(o) ==
  IF o.kind = "ok"
  THEN IF Faults(o.data)
       THEN Return([content |-> << [type |-> "text",
                                    text |-> << "Perplexity API error: Cannot read properties of undefined" >>] >>,
                    isError |-> TRUE])
       ELSE Return([content |-> << [type |-> "text",
                                    text |-> JsonStringify(FormatResponse(o.data))] >>])
  ELSE Return([content |-> << [type |-> "text",
                               text |-> << "Perplexity API error: " \o ErrorMessage(o) >>] >>,
               isError |-> TRUE])

\* The handler from the point where the awaited axios.post settles.
HandleReply(o) ==
  IF o.kind = "ok"
  THEN IF Faults(o.data)
       THEN Throw([name |-> "TypeError", message |-> "Cannot read properties of undefined"])
       ELSE Return([content |-> << [type |-> "text",
                                    text |-> JsonStringify(FormatResponse(o.data))] >>])
  ELSE Return([content |-> << [type |-> "text",
                               text |-> << "Perplexity API error: " \o ErrorMessage(o) >>] >>,
               isError |-> TRUE])

\* Mutant of Complete: a failed call is attempted once more before the error
\* response is built.
CompleteRetry(inv, o) ==
  [ request |-> inv.request,
    calls |-> IF o.kind = "ok" THEN inv.calls ELSE inv.calls \o inv.calls,
    reply |-> Some(o),
    outcome |-> HandleReply(o) ]

\* What the handler has done when the invocation inv ends, its call having
\* settled with reply o: the calls it issued and what it returned or threw.
Complete(inv, o) ==
  [ request |-> inv.request, calls |-> inv.calls, reply |-> Some(o),
    outcome |-> HandleReply(o) ]

----------------------------------------------------------------------------
(* The handlers of the event-stream variant, from its own source file *)

SseMaxTokens == 8192
SseTemperature == [num |-> 2, den |-> 10]

SseSearchTool ==
  [ name |-> "search",
    description |-> "Perform a web search using Perplexity's API, which provides detailed and contextually relevant results with citations. By default, no time filtering is applied to search results.",
    inputSchema |->
      [ type |-> "object",
        properties |->
          [ query |-> [ type |-> "string",
                        description |-> "The search query to perform" ],
            search_recency_filter |->
              [ type |-> "string",
                description |-> "Filter search results by recency (options: month, week, day, hour). If not specified, no time filtering is applied.",
                enum |-> << "month", "week", "day", "hour" >> ] ],
        required |-> << "query" >> ] ]

\* The tools/list handler.
SseListTools ==
  << SseSearchTool >>

SseDispatch(name) == IF name = "search" THEN "search" ELSE "default"

\* A payload whose model is written into the handler instead of being read
\* from the configuration.
SseBuildPayloadFixedModel(mdl, args) ==
  LET payload == [ model |-> "sonar-pro",
                   messages |-> << [role |-> "user", content |-> args.query] >>,
                   max_tokens |-> SseMaxTokens,
                   temperature |-> SseTemperature ]
  IN IF Truthy(args.search_recency_filter)
     THEN payload @@ ("search_recency_filter" :> Val(args.search_recency_filter))
     ELSE payload

\* const payload = {...}; if (search_recency_filter) payload.search_recency_filter = ...
SseBuildPayload(mdl, args) ==
  LET payload == [ model |-> mdl,
                   messages |-> << [role |-> "user", content |-> args.query] >>,
                   max_tokens |-> SseMaxTokens,
                   temperature |-> SseTemperature ]
  IN IF Truthy(args.search_recency_filter)
     THEN payload @@ ("search_recency_filter" :> Val(args.search_recency_filter))
     ELSE payload

\* axios.post(url, payload, { headers })
SseIssueCalls(mdl, key, args) ==
  << [ url |-> "https://api.perplexity.ai/chat/completions",
       payload |-> SseBuildPayload(mdl, args),
       headers |->
         [ Authorization |-> "Bearer " \o (IF IsDefined(key) THEN Val(key) ELSE "undefined"),
           ContentType |-> "application/json" ] ] >>

\* The handler from the point where the awaited axios.post settles.
SseHandleReply(o) ==
  IF o.kind = "ok"
  THEN IF Faults(o.data)
       THEN Throw([name |-> "TypeError", message |-> "Cannot read properties of undefined"])
       ELSE LET formattedResponse ==
                  [ content |-> Some(Val(o.data.choices)[1].message.content),
                    citations |-> Or(o.data.citations, Some(<<>>)) ]
            IN Return([content |-> << [type |-> "text",
                                       text |-> JsonStringify(formattedResponse)] >>])
  ELSE LET errorData == IF o.kind = "http" THEN o.data ELSE None
           err == IF IsDefined(errorData) THEN Val(errorData).error ELSE None
           msg == IF IsDefined(errorData) THEN Val(errorData).message ELSE None
           errorMessage == Val(Or(Or(err, msg), Some(o.message)))
       IN Return([content |-> << [type |-> "text",
                                  text |-> << "Perplexity API error: " \o errorMessage >>] >>,
                  isError |-> TRUE])

\* default: throw new McpError(ErrorCode.MethodNotFound, ...)
SseUnknownTool(name) ==
  Throw([name |-> "McpError", code |-> "MethodNotFound",
         message |-> "Unknown tool: " \o name])

SseComplete(inv, o) ==
  [ request |-> inv.request, calls |-> inv.calls, reply |-> Some(o),
    outcome |-> SseHandleReply(o) ]

----------------------------------------------------------------------------
(* State *)

VARIABLES
  variant,    \* "stdio" or "sse": which of the two programs runs
  argv,       \* process.argv after the script name
  apiKey,     \* process.env.PERPLEXITY_API_KEY
  phase,      \* "start", "configured", "running", "closing", "exited", "failed",
              \* "unbound", "drained", "crashed"
  model,      \* the configured model, undefined until validated
  transport,  \* the current transport: 0 is undefined, n > 0 the n-th connection
  open,       \* the connections the server has been connected to and not closed
  inflight,   \* the invocations suspended at their outbound call, by slot
  sent,       \* the last invocation answered, with what the handler did
  rejected,   \* whether a MethodNotFound error has been sent
  listed,     \* the tool list last returned to a tools/list request
  lastPost,   \* what the last POST /messages came to: its sender, the
              \* transport it was handed to (0: none), the newest connection
              \* at that time (0: none) and what became of its response object
  exitCode    \* the process's exit status, undefined while it runs

vars == << variant, argv, apiKey, phase, model, transport, open, inflight, sent,
           rejected, listed, lastPost, exitCode >>

config == << variant, argv, apiKey >>

\* The state as the process starts, its command line drawn from A and its
\* API key from K.
InitOn(A, K) ==
  /\ variant \in { "stdio", "sse" }
  /\ argv \in A
  /\ apiKey \in K
  /\ phase = "start"
  /\ model = None
  /\ transport = 0
  /\ open = {}
  /\ inflight = << >>
  /\ sent = None
  /\ rejected = FALSE
  /\ listed = None
  /\ lastPost = None
  /\ exitCode = None

----------------------------------------------------------------------------
(* Startup *)

\* Model validation and server construction. An invalid model throws out of
\* the module's top level: the process ends with an uncaught exception.
Construct ==
  /\ phase = "start"
  /\ IF ModelValid(ParseModel(argv))
     THEN /\ model' = ParseModel(argv)
          /\ phase' = "configured"
          /\ UNCHANGED exitCode
     ELSE /\ phase' = "failed"
          /\ exitCode' = Some(1)
          /\ UNCHANGED model
  /\ UNCHANGED << config, listed, lastPost, transport, open, inflight, sent, rejected >>

\* run(): the stdio transport is created and the server connected to it.
Run ==
  /\ variant = "stdio"
  /\ phase = "configured"
  /\ transport' = 1
  /\ open' = { 1 }
  /\ phase' = "running"
  /\ UNCHANGED << config, listed, lastPost, model, inflight, sent, rejected, exitCode >>

\* app.listen(PORT): the HTTP server is bound; no connection exists yet.
Listen ==
  /\ variant = "sse"
  /\ phase = "configured"
  /\ phase' = "running"
  /\ UNCHANGED << config, listed, lastPost, model, transport, open, inflight, sent, rejected, exitCode >>

\* run() when server.connect(transport) rejects: the rejection is handed to
\* console.error and nothing else is done; the process is left alive with no
\* connection.
RunFail ==
  /\ variant = "stdio"
  /\ phase = "configured"
  /\ phase' = "unbound"
  /\ UNCHANGED << config, listed, lastPost, model, transport, open, inflight, sent, rejected, exitCode >>

\* After a failed run(), nothing may be left to keep the event loop alive (no
\* listener on standard input): the process then ends by itself, with the
\* status of a normal end.
Drain ==
  /\ variant = "stdio"
  /\ phase = "unbound"
  /\ phase' = "drained"
  /\ exitCode' = Some(0)
  /\ UNCHANGED << config, listed, lastPost, model, transport, open, inflight, sent, rejected >>

\* app.listen(PORT) when the port cannot be bound: the HTTP server emits
\* 'error', which has no listener, and the process ends with an uncaught
\* exception.
ListenFail ==
  /\ variant = "sse"
  /\ phase = "configured"
  /\ phase' = "crashed"
  /\ exitCode' = Some(1)
  /\ UNCHANGED << config, listed, lastPost, model, transport, open, inflight, sent, rejected >>

\* A slot that keeps the first connection it was given.
RegisterFirst(current, conn) ==
  IF current = 0 THEN conn ELSE current

\* transport = new SSEServerTransport(...): the slot takes the new
\* connection whatever it held.
Register(current, conn) ==
  conn

\* GET /sse: a new transport replaces the current one and the server is
\* connected to it; the earlier one is neither closed nor told.
GetSse ==
  /\ variant = "sse"
  /\ phase = "running"
  /\ Cardinality(open) < MaxClients
  /\ transport' = Register(transport, Cardinality(open) + 1)
  /\ open' = open \cup { Cardinality(open) + 1 }
  /\ UNCHANGED << config, listed, lastPost, phase, model, inflight, sent, rejected, exitCode >>

----------------------------------------------------------------------------
(* Requests *)

FreeSlots == (1..MaxInFlight) \ DOMAIN inflight

\* A handler whose payload object is shared by the invocations: while an
\* earlier invocation is suspended, a new one sends that one's arguments.
HandleCallToolShared(req) ==
  IF Dispatch(req.name) = "search"
  THEN /\ FreeSlots # {}
       /\ inflight' = inflight @@
            (Min(FreeSlots) :>
               [ request |-> req,
                 calls |-> IssueCalls(Val(model), apiKey,
                             IF DOMAIN inflight # {}
                             THEN inflight[Min(DOMAIN inflight)].request.arguments
                             ELSE req.arguments) ])
       /\ UNCHANGED << sent, rejected >>
  ELSE /\ sent' = Some([ request |-> req, calls |-> <<>>, reply |-> None,
                         outcome |-> UnknownTool(req.name) ])
       /\ rejected' = TRUE
       /\ UNCHANGED inflight

\* The handler up to its first suspension: a search invocation builds its
\* payload, issues the call and waits; any other name throws at once.
HandleCallTool(req) ==
  IF Dispatch(req.name) = "search"
  THEN /\ FreeSlots # {}
       /\ inflight' = inflight @@
            (Min(FreeSlots) :> [ request |-> req,
                                 calls |-> IssueCalls(Val(model), apiKey, req.arguments) ])
       /\ UNCHANGED << sent, rejected >>
  ELSE /\ sent' = Some([ request |-> req, calls |-> <<>>, reply |-> None,
                         outcome |-> UnknownTool(req.name) ])
       /\ rejected' = TRUE
       /\ UNCHANGED inflight

\* The one tool the server describes.
SearchTool ==
  [ name |-> "search",
    description |-> "Perform a web search using Perplexity's API, which provides detailed and contextually relevant results with citations. By default, no time filtering is applied to search results.",
    inputSchema |->
      [ type |-> "object",
        properties |->
          [ query |-> [ type |-> "string",
                        description |-> "The search query to perform" ],
            search_recency_filter |->
              [ type |-> "string",
                description |-> "Filter search results by recency (options: month, week, day, hour). If not specified, no time filtering is applied.",
                enum |-> << "month", "week", "day", "hour" >> ] ],
        required |-> << "query" >> ] ]

\* A handler that hands its list out once and has nothing left afterwards.
ListToolsOnce ==
  IF IsDefined(listed) THEN << >> ELSE << SearchTool >>

\* The tools/list handler: a literal, whatever happened before.
ListTools ==
  << SearchTool >>

\* A tools/list request; a tools/call request is its params (name, arguments).
ListToolsRequest == [ method |-> "tools/list" ]

IsListTools(msg) == "method" \in DOMAIN msg

\* The server hands a request to the handler registered for its schema.
HandleRequest(msg) ==
  IF IsListTools(msg)
  THEN /\ listed' = Some(ListTools)
       /\ UNCHANGED << inflight, sent, rejected >>
  ELSE /\ HandleCallTool(msg)
       /\ UNCHANGED listed

\* The same two handlers as the event-stream variant registers them.
SseHandleCallTool(req) ==
  IF SseDispatch(req.name) = "search"
  THEN /\ FreeSlots # {}
       /\ inflight' = inflight @@
            (Min(FreeSlots) :> [ request |-> req,
                                 calls |-> SseIssueCalls(Val(model), apiKey, req.arguments) ])
       /\ UNCHANGED << sent, rejected >>
  ELSE /\ sent' = Some([ request |-> req, calls |-> <<>>, reply |-> None,
                         outcome |-> SseUnknownTool(req.name) ])
       /\ rejected' = TRUE
       /\ UNCHANGED inflight

SseHandleRequest(msg) ==
  IF IsListTools(msg)
  THEN /\ listed' = Some(SseListTools)
       /\ UNCHANGED << inflight, sent, rejected >>
  ELSE /\ SseHandleCallTool(msg)
       /\ UNCHANGED listed

\* A request frame read from standard input.
StdioRequest(req) ==
  /\ variant = "stdio"
  /\ phase = "running"
  /\ HandleRequest(req)
  /\ UNCHANGED << config, lastPost, phase, model, transport, open, exitCode >>

\* The clients that send POST /messages; client n is the one whose GET /sse
\* would be the n-th connection.
Clients == 1..MaxClients

\* The newest connection, 0 if there has been none.
Newest == IF open = {} THEN 0 ELSE CHOOSE c \in open : \A d \in open : d <= c

\* transport.handlePostMessage(req, res): request and response object are
\* handed to the current transport.
Forwarded(from) ==
  [ from |-> from, to |-> transport, newest |-> Newest, res |-> "handed" ]

\* A handler that answers by itself when there is no transport.
DroppedWithStatus(from) ==
  [ from |-> from, to |-> 0, newest |-> Newest, res |-> "answered" ]

\* No transport: the handler returns without having touched res.
Dropped(from) ==
  [ from |-> from, to |-> 0, newest |-> Newest, res |-> "untouched" ]

\* POST /messages from a client, carrying a request: handed to the current
\* transport if there is one, otherwise nothing is done with it.
PostMessages(from, req) ==
  /\ variant = "sse"
  /\ phase = "running"
  /\ IF transport # 0
     THEN /\ lastPost' = Some(Forwarded(from))
          /\ SseHandleRequest(req)
     ELSE /\ lastPost' = Some(Dropped(from))
          /\ UNCHANGED << inflight, sent, rejected, listed >>
  /\ UNCHANGED << config, phase, model, transport, open, exitCode >>

\* The outbound call of the invocation in slot id settles with outcome o and
\* the handler runs to its end.
GatewayReply(id, o) ==
  /\ phase = "running"
  /\ id \in DOMAIN inflight
  /\ inflight[id].calls # <<>>
  /\ o \in GatewayOutcomes(inflight[id].calls[Len(inflight[id].calls)])
  /\ sent' = Some(IF variant = "sse" THEN SseComplete(inflight[id], o)
                                      ELSE Complete(inflight[id], o))
  /\ inflight' = [ j \in DOMAIN inflight \ { id } |-> inflight[j] ]
  /\ UNCHANGED << config, listed, lastPost, phase, model, transport, open, rejected, exitCode >>

----------------------------------------------------------------------------
(* Shutdown *)

\* stdio variant, SIGINT handler, first half: await this.server.close().
SigintClose ==
  /\ variant = "stdio"
  /\ phase = "running"
  /\ open' = {}
  /\ phase' = "closing"
  /\ UNCHANGED << config, listed, lastPost, model, transport, inflight, sent, rejected, exitCode >>

\* stdio variant, SIGINT handler, second half: process.exit(0).
SigintExit ==
  /\ variant = "stdio"
  /\ phase = "closing"
  /\ phase' = "exited"
  /\ exitCode' = Some(0)
  /\ inflight' = << >>
  /\ UNCHANGED << config, listed, lastPost, model, transport, open, sent, rejected >>

\* Event-stream variant: no SIGINT handler is registered, so the signal ends
\* the process at once (status 128 + 2) with its connections as they are.
SigintDefault ==
  /\ variant = "sse"
  /\ phase = "running"
  /\ phase' = "exited"
  /\ exitCode' = Some(130)
  /\ inflight' = << >>
  /\ UNCHANGED << config, listed, lastPost, model, transport, open, sent, rejected >>

----------------------------------------------------------------------------

\* The steps of the program, its requests drawn from R, the outcomes of its
\* outbound calls from O and the senders of its POSTs from S.
NextOn(R, O, S) ==
  \/ Construct
  \/ Run
  \/ RunFail
  \/ Drain
  \/ Listen
  \/ ListenFail
  \/ GetSse
  \/ \E req \in R : StdioRequest(req)
  \/ \E from \in S : \E req \in R : PostMessages(from, req)
  \/ \E id \in 1..MaxInFlight : \E o \in O : GatewayReply(id, o)
  \/ SigintClose
  \/ SigintExit
  \/ SigintDefault

\* One request and one outcome of each kind.
CoreRequests ==
  { r \in Requests :
      \/ r.name = "lookup"
      \/ r.arguments = [query |-> "capital of France", search_recency_filter |-> None]
      \/ r.arguments = [query |-> "", search_recency_filter |-> Some("week")] }

CoreOutcomes ==
  { [kind |-> "ok", data |-> [choices |-> Some(<<Choice("Paris")>>),
                              citations |-> Some(<<"https://a">>)]],
    [kind |-> "ok", data |-> [choices |-> None, citations |-> None]],
    [kind |-> "http", message |-> "Request failed with status code 401",
     data |-> Some([error |-> Some("invalid_api_key"), message |-> None])],
    [kind |-> "network", message |-> "Network Error"] }

DefaultArgvs == { <<>>, <<"--verbose", "--model", "sonar">> }

\* Every command line, environment and sender; one request and outcome of
\* each kind, tools/list among the requests.
Spec ==
  /\ InitOn(Argvs, ApiKeys)
  /\ [][NextOn(CoreRequests \cup { ListToolsRequest }, CoreOutcomes, Clients)]_vars

\* Every recency argument; one outcome of each kind.
RecencyRequests ==
  { r \in Requests : r.name = "lookup" \/ r.arguments.query = "capital of France" }

SpecArgs == InitOn({ <<>> }, { Some(ValidKey) }) /\ [][NextOn(RecencyRequests, CoreOutcomes, { 1 })]_vars

\* Every outcome of the outbound call; one request of each kind.
SpecReplies == InitOn(DefaultArgvs, ApiKeys) /\ [][NextOn(CoreRequests, Outcomes, { 1 })]_vars

----------------------------------------------------------------------------
(* Properties *)

Answered == IsDefined(sent)
Last == Val(sent)
Suspended == { inflight[i] : i \in DOMAIN inflight }
AnsweredSearch == Answered /\ Last.request.name = "search"

\* The value is a tool response with exactly one text block.
OneTextBlock(v) ==
  /\ "content" \in DOMAIN v
  /\ Len(v.content) = 1
  /\ v.content[1].type = "text"

ErrorFlagSet(v) == "isError" \in DOMAIN v /\ v.isError = TRUE

\* C1: a request whose name is not "search" is failed with a MethodNotFound
\* protocol error and issues no outbound call (it is never suspended at one),
\* and once such an error has been sent the running server still holds its
\* connection open, so that a later search is dispatched on it.
C1_UnknownToolRejected ==
  /\ \A inv \in Suspended : inv.request.name = "search"
  /\ (Answered /\ Last.request.name # "search") =>
        /\ Last.calls = <<>>
        /\ Last.outcome.kind = "throw"
        /\ Last.outcome.value.name = "McpError"
        /\ Last.outcome.value.code = "MethodNotFound"
  /\ (rejected /\ phase = "running") => (transport # 0 /\ transport \in open)

\* C1 witness: after a MethodNotFound error a search has been answered normally.
C1_Witness ==
  /\ rejected
  /\ AnsweredSearch
  /\ Last.outcome.kind = "return"
  /\ ~ErrorFlagSet(Last.outcome.value)

\* The message by the rule "the error member if present, else the message
\* member if present, else the transport error text".
MessageByPresence(o) ==
  IF o.kind = "http" /\ IsDefined(o.data) /\ IsDefined(Val(o.data).error)
  THEN Val(Val(o.data).error)
  ELSE IF o.kind = "http" /\ IsDefined(o.data) /\ IsDefined(Val(o.data).message)
  THEN Val(Val(o.data).message)
  ELSE o.message

\* The same rule with "present" read as "present and not the empty string".
MessageByNonEmpty(o) ==
  IF o.kind = "http" /\ IsDefined(o.data) /\ IsDefined(Val(o.data).error)
     /\ Val(Val(o.data).error) # ""
  THEN Val(Val(o.data).error)
  ELSE IF o.kind = "http" /\ IsDefined(o.data) /\ IsDefined(Val(o.data).message)
          /\ Val(Val(o.data).message) # ""
  THEN Val(Val(o.data).message)
  ELSE o.message

FailedReply == AnsweredSearch /\ Val(Last.reply).kind \in { "http", "network" }

\* The response is exactly one text block "Perplexity API error: <m>" with the
\* error flag set.
IsErrorResponse(out, m) ==
  /\ out.kind = "return"
  /\ DOMAIN out.value = { "content", "isError" }
  /\ OneTextBlock(out.value)
  /\ out.value.content[1].text = << "Perplexity API error: " \o m >>
  /\ out.value.isError = TRUE

\* C2 as claimed: on a failed outbound call the response is the one text block
\* "Perplexity API error: <message>" with isError true, the message being the
\* upstream error member if present, else the message member if present, else
\* the transport error text.
C2_Original ==
  FailedReply => IsErrorResponse(Last.outcome, MessageByPresence(Val(Last.reply)))

\* C2 as amended: the same, with a member used only if it is present and not
\* the empty string.
C2_ErrorMessagePriority ==
  FailedReply => IsErrorResponse(Last.outcome, MessageByNonEmpty(Val(Last.reply)))

\* C2 witness: upstream {error: "invalid_api_key"} on a non-2xx status has been
\* answered "Perplexity API error: invalid_api_key" with the error flag set.
C2_Witness ==
  /\ FailedReply
  /\ Val(Last.reply).kind = "http"
  /\ IsDefined(Val(Last.reply).data)
  /\ Val(Val(Last.reply).data).error = Some("invalid_api_key")
  /\ IsErrorResponse(Last.outcome, "invalid_api_key")

GoodReply ==
  /\ AnsweredSearch
  /\ Val(Last.reply).kind = "ok"
  /\ IsDefined(Val(Last.reply).data.choices)
  /\ Len(Val(Val(Last.reply).data.choices)) > 0

\* C3: on a 2xx reply with a non-empty choices list the response is a single
\* text block without isError that parses to {content, citations}: content is
\* the first choice's message content, citations is the reply's citations list,
\* or the empty sequence (not undefined) when the reply has none.
C3_SuccessMapping ==
  GoodReply =>
    LET data == Val(Last.reply).data
        v == Last.outcome.value
    IN /\ Last.outcome.kind = "return"
       /\ DOMAIN v = { "content" }
       /\ OneTextBlock(v)
       /\ JsonParse(v.content[1].text) =
            [ content |-> Some(Val(data.choices)[1].message.content),
              citations |-> IF IsDefined(data.citations)
                            THEN Some(Val(data.citations)) ELSE Some(<<>>) ]

\* C3 witness: a reply with two choices and no citations member has been
\* answered with citations the empty sequence.
C3_Witness ==
  /\ GoodReply
  /\ Len(Val(Val(Last.reply).data.choices)) = 2
  /\ Val(Last.reply).data.citations = None
  /\ Last.outcome.kind = "return"
  /\ JsonParse(Last.outcome.value.content[1].text).citations = Some(<<>>)

\* C4 as claimed: every answered search invocation, whatever the outcome of
\* its outbound call (unreachable, non-2xx, malformed body), is answered by a
\* returned response with one text block, never by a thrown error, and the
\* error flag is set unless the reply was a 2xx with a non-empty choices list.
C4_Claim ==
  AnsweredSearch =>
    /\ Last.outcome.kind = "return"
    /\ OneTextBlock(Last.outcome.value)
    /\ ~GoodReply => ErrorFlagSet(Last.outcome.value)

\* The search invocations handled so far that the state still shows: those
\* suspended at their call and the last one answered.
Handled ==
  Suspended \cup
    (IF AnsweredSearch THEN { [request |-> Last.request, calls |-> Last.calls] } ELSE {})

Recency(inv) == inv.request.arguments.search_recency_filter

\* C5 as claimed: an invocation whose search_recency_filter is one of month,
\* week, day, hour issues a call whose payload carries that token; one whose
\* search_recency_filter is present with any other value issues no call.
C5_Claim ==
  \A inv \in Handled :
    IsDefined(Recency(inv)) =>
      IF Val(Recency(inv)) \in { "month", "week", "day", "hour" }
      THEN /\ Len(inv.calls) = 1
           /\ "search_recency_filter" \in DOMAIN inv.calls[1].payload
           /\ inv.calls[1].payload.search_recency_filter = Val(Recency(inv))
      ELSE inv.calls = <<>>

\* C6: an invocation without a search_recency_filter argument issues a payload
\* that has no search_recency_filter member at all.
C6_AbsentRecencyOmitted ==
  \A inv \in Handled :
    ~IsDefined(Recency(inv)) =>
      \A i \in 1..Len(inv.calls) :
        "search_recency_filter" \notin DOMAIN inv.calls[i].payload

\* C6 witness: an invocation without the argument is suspended at its call.
C6_Witness ==
  \E inv \in Suspended :
    /\ ~IsDefined(Recency(inv))
    /\ Len(inv.calls) = 1
    /\ DOMAIN inv.calls[1].payload = { "model", "messages", "max_tokens", "temperature" }

\* The call is the one POST the interface describes for the request.
CallAsSpecified(call, req) ==
  /\ call.url = "https://api.perplexity.ai/chat/completions"
  /\ IsDefined(model)
  /\ call.payload.model = Val(model)
  /\ call.payload.messages = << [role |-> "user", content |-> req.arguments.query] >>
  /\ call.payload.max_tokens = 8192
  /\ call.payload.temperature = [num |-> 2, den |-> 10]

BadModelFlag ==
  LET at == { i \in 1..Len(argv) : argv[i] = "--model" }
  IN /\ at # {}
     /\ \/ Min(at) = Len(argv)
        \/ argv[Min(at) + 1] \notin { "sonar", "sonar-pro" }

\* C8: with a bad --model flag the process never gets past startup: no
\* transport is bound, no connection made, no request handled; and whenever
\* the server runs or a request is or has been handled, the configured model
\* is "sonar" or "sonar-pro".
C8_InvalidModelStopsStartup ==
  /\ BadModelFlag =>
       /\ phase \in { "start", "failed" }
       /\ transport = 0
       /\ open = {}
       /\ Suspended = {}
       /\ ~Answered
  /\ (phase = "running" \/ Suspended # {} \/ Answered) =>
       /\ IsDefined(model)
       /\ Val(model) \in { "sonar", "sonar-pro" }

\* C8 witness: --model with no value after it has ended the process at startup.
C8_Witness ==
  /\ argv = << "--model" >>
  /\ BadModelFlag
  /\ phase = "failed"
  /\ exitCode = Some(1)

\* C9: with the API key unset, startup fails only on a bad --model flag;
\* every search invocation has issued its one call, bearing "Bearer undefined";
\* and every answered one got the "Perplexity API error: ..." response with
\* the error flag set.
C9_MissingKeyFailsAtGateway ==
  apiKey = None =>
    /\ phase = "failed" => BadModelFlag
    /\ \A inv \in Handled :
         /\ Len(inv.calls) = 1
         /\ inv.calls[1].headers.Authorization = "Bearer undefined"
    /\ AnsweredSearch =>
         \E o \in FailureOutcomes : IsErrorResponse(Last.outcome, MessageByNonEmpty(o))

\* C9 witness: without the key the server runs with a connection and a search
\* has been answered with the upstream authorization error.
C9_Witness ==
  /\ apiKey = None
  /\ phase = "running"
  /\ transport \in open
  /\ AnsweredSearch
  /\ Len(Last.calls) = 1
  /\ IsErrorResponse(Last.outcome, "invalid_api_key")

\* C10 as claimed: in both variants a process that had a connection and was
\* ended by the shutdown signal has closed its connections and exited with
\* status 0.
C10_Claim ==
  (phase = "exited" /\ transport # 0) => (open = {} /\ exitCode = Some(0))

\* C11 as claimed: in both variants a process whose transport setup failed
\* (connect or listen) has exited with a non-zero status: it neither goes on
\* running nor exits with status 0.
C11_Claim ==
  phase \in { "unbound", "drained", "crashed" } =>
    (IsDefined(exitCode) /\ Val(exitCode) # 0)

\* C12: whatever came before it (searches answered or failed, unknown tools
\* rejected, earlier listings), a tools/list request is answered with the same
\* list of exactly one tool, "search", which requires query and accepts
\* search_recency_filter with the enum month, week, day, hour.
C12_DiscoveryIdempotent ==
  IsDefined(listed) =>
    LET tools == Val(listed) IN
      /\ Len(tools) = 1
      /\ tools[1].name = "search"
      /\ tools[1].inputSchema.required = << "query" >>
      /\ DOMAIN tools[1].inputSchema.properties = { "query", "search_recency_filter" }
      /\ tools[1].inputSchema.properties.search_recency_filter.enum
           = << "month", "week", "day", "hour" >>

\* The tools were listed in a run that also rejected an unknown tool and
\* answered a failed search while another search is still suspended.
C12_Witness ==
  /\ IsDefined(listed)
  /\ rejected
  /\ AnsweredSearch
  /\ Last.outcome.kind = "return"
  /\ ErrorFlagSet(Last.outcome.value)
  /\ Suspended # {}

\* C13: in the event-stream variant one slot holds the current connection.
\* A GET /sse puts the new connection into it and leaves the earlier
\* connections open, and a POST /messages received while there is a
\* connection is handed to the newest one, whichever client sent it.
C13_PostGoesToNewest ==
  variant = "sse" =>
    /\ open = 1..Cardinality(open)
    /\ transport = Newest
    /\ (IsDefined(lastPost) /\ Val(lastPost).newest # 0) =>
         Val(lastPost).to = Val(lastPost).newest

\* The first client posted after a second one had connected, both
\* connections still open, and the POST went to the second.
C13_Witness ==
  /\ variant = "sse"
  /\ open = { 1, 2 }
  /\ IsDefined(lastPost)
  /\ Val(lastPost).from = 1
  /\ Val(lastPost).to = 2

\* C17: in the event-stream variant a POST /messages that arrives before any
\* GET /sse is handed to no transport and the handler writes no response for
\* it; a POST that arrives after the first GET /sse is handed to a transport.
C17_PostBeforeConnection ==
  IsDefined(lastPost) =>
    LET p == Val(lastPost) IN
      /\ p.newest = 0 => (p.to = 0 /\ p.res = "untouched")
      /\ p.newest # 0 => (p.to # 0 /\ p.res = "handed")

\* A POST arrived before the first connection and is still unanswered now
\* that a client has connected.
C17_Witness ==
  /\ IsDefined(lastPost)
  /\ Val(lastPost).to = 0
  /\ Val(lastPost).res = "untouched"
  /\ transport # 0

\* C14: a search whose call was answered 2xx with an empty choices list gets
\* no response object: the handler ends by throwing the TypeError of the
\* dereference, rethrown as it is (it is not an axios error), and returns
\* neither the content/citations block nor a "Perplexity API error" block.
C14_EmptyChoicesRethrown ==
  (/\ AnsweredSearch
   /\ Val(Last.reply).kind = "ok"
   /\ IsDefined(Val(Last.reply).data.choices)
   /\ Val(Val(Last.reply).data.choices) = << >>) =>
    /\ Last.outcome.kind = "throw"
    /\ Last.outcome.value.name = "TypeError"
    /\ Len(Last.calls) = 1

\* A search has been answered after a 2xx reply with choices: [] and a list
\* of citations.
C14_Witness ==
  /\ AnsweredSearch
  /\ Val(Last.reply).kind = "ok"
  /\ Val(Last.reply).data.choices = Some(<< >>)
  /\ IsDefined(Val(Last.reply).data.citations)

\* The model the command line asks for.
ModelOnCommandLine ==
  LET at == { i \in 1..Len(argv) : argv[i] = "--model" }
  IN IF at = {} THEN "sonar-pro" ELSE argv[Min(at) + 1]

\* The response is the one the invocation's own reply calls for.
OwnResponse(out, reply) ==
  IF reply.kind \in { "http", "network" }
  THEN IsErrorResponse(out, MessageByNonEmpty(reply))
  ELSE IF IsDefined(reply.data.choices) /\ Len(Val(reply.data.choices)) > 0
  THEN /\ out.kind = "return"
       /\ ~ErrorFlagSet(out.value)
       /\ OneTextBlock(out.value)
       /\ JsonParse(out.value.content[1].text).content
            = Some(Val(reply.data.choices)[1].message.content)
  ELSE out.kind = "throw"

\* C15: with several search invocations suspended at their calls and
\* completing in any order, the configuration stays what startup made it
\* (the model of the command line, max_tokens 8192, temperature 0.2), and
\* every invocation's payload carries its own query and its own recency
\* filter and its response is the one its own reply calls for.
C15_InvocationsIndependent ==
  phase \in { "running", "closing", "exited" } =>
    /\ model = Some(ModelOnCommandLine)
    /\ \A inv \in Handled :
         /\ Len(inv.calls) = 1
         /\ inv.calls[1].payload.model = ModelOnCommandLine
         /\ inv.calls[1].payload.max_tokens = 8192
         /\ inv.calls[1].payload.temperature = [num |-> 2, den |-> 10]
         /\ inv.calls[1].payload.messages[1].content = inv.request.arguments.query
         /\ IF Truthy(Recency(inv))
            THEN /\ "search_recency_filter" \in DOMAIN inv.calls[1].payload
                 /\ inv.calls[1].payload.search_recency_filter = Val(Recency(inv))
            ELSE "search_recency_filter" \notin DOMAIN inv.calls[1].payload
    /\ AnsweredSearch => OwnResponse(Last.outcome, Val(Last.reply))

\* Two invocations with different arguments were suspended together; one has
\* been answered from a good reply while the other still waits.
C15_Witness ==
  /\ GoodReply
  /\ Last.outcome.kind = "return"
  /\ \E inv \in Suspended :
       /\ inv.request.arguments.query # Last.request.arguments.query
       /\ Len(inv.calls) = 1
       /\ inv.calls[1].payload.messages[1].content = inv.request.arguments.query

\* C16: the two variants answer alike: whichever of them runs, the call a
\* search issues, the response or error a request ends with and the list a
\* tools/list request gets are what the stdio handlers and what the
\* event-stream handlers produce for the same request, configuration and
\* reply.
C16_VariantsAgree ==
  /\ \A inv \in Handled :
       /\ IsDefined(model)
       /\ inv.calls = IssueCalls(Val(model), apiKey, inv.request.arguments)
       /\ inv.calls = SseIssueCalls(Val(model), apiKey, inv.request.arguments)
  /\ Answered =>
       IF Last.request.name = "search"
       THEN /\ Last.outcome = HandleReply(Val(Last.reply))
            /\ Last.outcome = SseHandleReply(Val(Last.reply))
       ELSE /\ Last.outcome = UnknownTool(Last.request.name)
            /\ Last.outcome = SseUnknownTool(Last.request.name)
  /\ IsDefined(listed) =>
       (Val(listed) = ListTools /\ Val(listed) = SseListTools)

\* The event-stream variant, started with --model sonar, has listed its
\* tools, rejected an unknown tool and answered a search whose call failed.
C16_Witness ==
  /\ variant = "sse"
  /\ model = Some("sonar")
  /\ IsDefined(listed)
  /\ rejected
  /\ FailedReply
  /\ Last.calls[1].payload.model = "sonar"

====
